---- MODULE Spec2Model ----
(***************************************************************************)
(* State-machine model of src/lib/csutilities.cpp (Security::CodeSigning). *)
(*                                                                         *)
(* Three independent machines share this module, one per utility:          *)
(*   HashSpec / HashFairSpec  hashFileData(FileDesc, SHA1 &, size_t limit)  *)
(*   CertSpec                 certificateHasField(SecCertificateRef, oid)   *)
(*   CopySpec                 class Copyfile                                *)
(* Each specification drives one machine and leaves the variables of the   *)
(* other two at their initial values.                                      *)
(***************************************************************************)
EXTENDS Integers, Sequences, FiniteSets, TLC

VARIABLES
    \* ---- hashFileData -------------------------------------------------
    file,        \* contents of the open file, a sequence of bytes
    pos,         \* the descriptor's cursor (bytes before it are consumed)
    atEnd,       \* fd.atEnd() of the callee's FileDesc (passed by value)
    limit,       \* parameter limit, counted down by the loop
    total,       \* local total
    size,        \* local size of the latest iteration
    got,         \* local got of the latest iteration
    hasher,      \* bytes appended so far to the caller's SHA1 object
    hashCalls,   \* invocations of hasher(...) made by the current call
    hpc,         \* position of hashFileData: idle, loop, return, returned, raised
    ret,         \* value returned by the latest call
    startPos,    \* cursor when the current call was entered
    startHasher, \* hash state when the current call was entered
    startLimit,  \* limit argument of the current call
    phase,       \* caller script: "A" one call; "B1","B2" the split calls
    p0,          \* cursor before the first call
    h0,          \* hash state before the first call
    refHasher,   \* hash state left by the single call of phase A
    refRet,      \* value returned by the single call of phase A
    sumRet,      \* sum of the values returned in phases B1 and B2
    \* ---- certificateHasField ------------------------------------------
    exts,        \* the certificate's extension list (sequence of OIDs)
    known,       \* OIDs the host certificate library parses natively
    oid,         \* parameter oid
    cpc,         \* position of certificateHasField
    rc,          \* status of the fast-path query (local rc)
    values,      \* array obtained by the slow-path query (local values)
    scan,        \* index of p within values during the scan
    found,       \* local found
    cresult,     \* outcome: "none", "true", "false" or "raised"
    thrown,      \* the status carried by the raised MacOSError, or "none"
    relrc,       \* status of the release call, "none" before it is issued
    relFirst,    \* release-first-field calls issued by this call
    relAll,      \* release-all-fields calls issued by this call
    copiedFirst, \* successful copy-first-field calls of this call
    copiedAll,   \* successful copy-all-fields calls of this call
    slowTried,   \* whether the slow-path query was issued
    hostFault,   \* the host failed a call for a reason of its own
    \* ---- Copyfile -----------------------------------------------------
    mState,      \* Copyfile::mState: "null" or "state"
    life,        \* "none", "alive", "failed" (constructor threw), "destroyed"
    cstate,      \* the host copy state: flag -> recorded value
    outbuf,      \* the caller's buffer handed to get()
    lastOp,      \* latest operation: [op, flag, value, rc]
    prevOp,      \* the operation before it
    raisedIo,    \* the latest operation raised UnixError
    allocs,      \* successful copyfile_state_alloc calls
    frees        \* copyfile_state_free calls on an allocated state

hashVars == <<file, pos, atEnd, limit, total, size, got, hasher, hashCalls, hpc,
              ret, startPos, startHasher, startLimit, phase, p0, h0, refHasher,
              refRet, sumRet>>
certVars == <<exts, known, oid, cpc, rc, values, scan, found, cresult, thrown,
              relrc, relFirst, relAll, copiedFirst, copiedAll, slowTried,
              hostFault>>
copyVars == <<mState, life, cstate, outbuf, lastOp, prevOp, raisedIo, allocs,
              frees>>
vars == <<hashVars, certVars, copyVars>>

Min(a, b) == IF a < b THEN a ELSE b

(***************************************************************************)
(* Bounds of the model.                                                    *)
(***************************************************************************)
\* sizeof(buffer) is 4096 in the source (line 73); the model scales it down
\* so that files of a few buffers' length are explored exhaustively.
BufferSize == 3
MaxLen == 7            \* longest file
MaxExts == 2           \* longest extension list of a certificate
MaxValue == 2          \* largest value recorded under a copy-state flag

MaxLimit == MaxLen + 1 \* limits up to one byte more than any file holds

(***************************************************************************)
(* hashFileData (lines 71-88)                                              *)
(***************************************************************************)
\* The file of length n; byte i differs from every other byte, so that any
\* byte fed twice, skipped or fed out of order shows in the hash state.
FileOfLen(n) == [i \in 1..n |-> i]

\* Lines 76-78: the size of the next read request.
ReadSize(lim) == IF lim # 0 /\ lim < BufferSize THEN lim ELSE BufferSize

\* fd.read(buffer, size), line 79: the byte counts a read of sz bytes can
\* deliver with the cursor at c in a file of n bytes. While data remains a
\* read delivers at least one byte and at most sz; with none left it
\* delivers zero.
ReadCounts(c, n, sz) == IF c >= n THEN {0} ELSE 1..Min(sz, n - c)

\* fd.atEnd(), line 81: the descriptor's at-end indicator after a read that
\* asked for sz > 0 bytes and delivered g: raised by the read that finds no
\* more data (a zero-length delivery), and it stays raised.
AtEndAfter(flag, sz, g) == flag \/ (sz > 0 /\ g = 0)

\* Lines 80-85: the rest of one iteration after the read delivered the g
\* bytes data, for a request of sz, with eof the at-end indicator.
LoopBody_LimitByRequest(lim, tot, h, hc, data, sz, g, eof) ==
    IF eof
    THEN [limit |-> lim, total |-> tot + g, hasher |-> h, hashCalls |-> hc,
          brk |-> TRUE]
    ELSE LET l2 == IF lim # 0 THEN lim - sz ELSE lim
         IN  [limit |-> l2, total |-> tot + g, hasher |-> h \o data,
              hashCalls |-> hc + 1, brk |-> (lim # 0 /\ l2 = 0)]
LoopBody_BreakBeforeHash(lim, tot, h, hc, data, sz, g, eof) ==
    IF eof
    THEN [limit |-> lim, total |-> tot + g, hasher |-> h, hashCalls |-> hc,
          brk |-> TRUE]
    ELSE LET l2 == IF lim # 0 THEN lim - g ELSE lim
         IN  IF lim # 0 /\ l2 = 0
             THEN [limit |-> l2, total |-> tot + g, hasher |-> h,
                   hashCalls |-> hc, brk |-> TRUE]
             ELSE [limit |-> l2, total |-> tot + g, hasher |-> h \o data,
                   hashCalls |-> hc + 1, brk |-> FALSE]
LoopBody_StopOnShortRead(lim, tot, h, hc, data, sz, g, eof) ==
    IF eof
    THEN [limit |-> lim, total |-> tot + g, hasher |-> h, hashCalls |-> hc,
          brk |-> TRUE]
    ELSE LET l2 == IF lim # 0 THEN lim - g ELSE lim
         IN  [limit |-> l2, total |-> tot + g, hasher |-> h \o data,
              hashCalls |-> hc + 1, brk |-> ((lim # 0 /\ l2 = 0) \/ g < sz)]
LoopBody(lim, tot, h, hc, data, sz, g, eof) ==
    IF eof
    THEN \* line 80 counts, line 82 leaves the loop before line 83
         [limit |-> lim, total |-> tot + g, hasher |-> h, hashCalls |-> hc,
          brk |-> TRUE]
    ELSE LET l2 == IF lim # 0 THEN lim - g ELSE lim      \* line 84
         IN  [limit |-> l2, total |-> tot + g, hasher |-> h \o data,
              hashCalls |-> hc + 1, brk |-> (lim # 0 /\ l2 = 0)]

\* Line 71: hasher is a SHA1 & parameter, the caller's own object.
CalleeHasher_Fresh(h) == << >>
CalleeHasher(h) == h

\* Entry of hashFileData(fd, hasher, L): lines 71-74.
Enter(L, ph) ==
    /\ limit' = L
    /\ total' = 0
    /\ size' = 0
    /\ got' = 0
    /\ atEnd' = FALSE
    /\ hasher' = CalleeHasher(hasher)
    /\ hashCalls' = 0
    /\ hpc' = "loop"
    /\ startPos' = pos
    /\ startHasher' = hasher
    /\ startLimit' = L
    /\ phase' = ph

\* Phase A: one call with any limit.
CallA ==
    /\ hpc = "idle" /\ phase = "A"
    /\ \E L \in 0..MaxLimit : Enter(L, "A")
    /\ UNCHANGED <<file, pos, ret, p0, h0, refHasher, refRet, sumRet>>
    /\ UNCHANGED <<certVars, copyVars>>

\* One iteration of the for(;;) loop, lines 76-85.
Iterate ==
    /\ hpc = "loop"
    /\ \E g \in ReadCounts(pos, Len(file), ReadSize(limit)) :
         LET sz   == ReadSize(limit)
             eof  == AtEndAfter(atEnd, sz, g)
             data == SubSeq(file, pos + 1, pos + g)
             b    == LoopBody(limit, total, hasher, hashCalls, data, sz, g, eof)
         IN  /\ size' = sz
             /\ got' = g
             /\ pos' = pos + g
             /\ atEnd' = eof
             /\ limit' = b.limit
             /\ total' = b.total
             /\ hasher' = b.hasher
             /\ hashCalls' = b.hashCalls
             /\ hpc' = IF b.brk THEN "return" ELSE "loop"
    /\ UNCHANGED <<file, ret, startPos, startHasher, startLimit, phase, p0, h0,
                   refHasher, refRet, sumRet>>
    /\ UNCHANGED <<certVars, copyVars>>

\* fd.read fails: UnixError leaves hashFileData (line 79).
ReadFail ==
    /\ hpc = "loop"
    /\ hpc' = "raised"
    /\ UNCHANGED <<file, pos, atEnd, limit, total, size, got, hasher, hashCalls,
                   ret, startPos, startHasher, startLimit, phase, p0, h0,
                   refHasher, refRet, sumRet>>
    /\ UNCHANGED <<certVars, copyVars>>

\* Line 87: return total.
Return ==
    /\ hpc = "return"
    /\ ret' = total
    /\ hpc' = "returned"
    /\ sumRet' = IF phase = "A" THEN sumRet ELSE sumRet + total
    /\ UNCHANGED <<file, pos, atEnd, limit, total, size, got, hasher, hashCalls,
                   startPos, startHasher, startLimit, phase, p0, h0, refHasher,
                   refRet>>
    /\ UNCHANGED <<certVars, copyVars>>

\* The caller, having hashed to end of file in one call, seeks back to where
\* it started, takes the hash state it started with, and hashes the same
\* region in two calls: the first with a limit L1 > 0 ...
CallB1 ==
    /\ hpc = "returned" /\ phase = "A" /\ startLimit = 0
    /\ refHasher' = hasher
    /\ refRet' = ret
    /\ \E L1 \in 1..MaxLimit :
         /\ limit' = L1
         /\ startLimit' = L1
    /\ pos' = p0
    /\ hasher' = CalleeHasher(h0)
    /\ startPos' = p0
    /\ startHasher' = h0
    /\ total' = 0 /\ size' = 0 /\ got' = 0 /\ atEnd' = FALSE /\ hashCalls' = 0
    /\ hpc' = "loop"
    /\ phase' = "B1"
    /\ UNCHANGED <<file, ret, p0, h0, sumRet>>
    /\ UNCHANGED <<certVars, copyVars>>

\* ... and the second without one, on the same descriptor and hash state.
CallB2 ==
    /\ hpc = "returned" /\ phase = "B1"
    /\ Enter(0, "B2")
    /\ UNCHANGED <<file, pos, ret, p0, h0, refHasher, refRet, sumRet>>
    /\ UNCHANGED <<certVars, copyVars>>

HashInit ==
    /\ \E n \in 0..MaxLen : file = FileOfLen(n)
    /\ pos \in 0..Len(file)
    /\ p0 = pos
    /\ h0 \in {<< >>, <<0>>}
    /\ hasher = h0
    /\ atEnd = FALSE /\ limit = 0 /\ total = 0 /\ size = 0 /\ got = 0
    /\ hashCalls = 0 /\ hpc = "idle" /\ ret = 0
    /\ startPos = pos /\ startHasher = h0 /\ startLimit = 0
    /\ phase = "A" /\ refHasher = << >> /\ refRet = 0 /\ sumRet = 0

HashNext == CallA \/ Iterate \/ ReadFail \/ Return \/ CallB1 \/ CallB2

HashIdle ==
    /\ file = << >> /\ pos = 0 /\ p0 = 0 /\ h0 = << >> /\ hasher = << >>
    /\ atEnd = FALSE /\ limit = 0 /\ total = 0 /\ size = 0 /\ got = 0
    /\ hashCalls = 0 /\ hpc = "idle" /\ ret = 0
    /\ startPos = 0 /\ startHasher = << >> /\ startLimit = 0
    /\ phase = "A" /\ refHasher = << >> /\ refRet = 0 /\ sumRet = 0

(***************************************************************************)
(* certificateHasField (lines 96-125)                                      *)
(***************************************************************************)
\* OIDs are byte sequences, compared byte for byte (CssmOid ==, line 118).
\* One of them is a proper prefix of another.
Oids == {<<1>>, <<2>>, <<1, 2>>}

Range(s) == {s[i] : i \in 1..Len(s)}

\* Every sequence over S of length at most n.
SeqsUpTo(S, n) == UNION {[1..k -> S] : k \in 0..n}

\* The host library's bag of unrecognized extensions: the extensions of the
\* certificate whose OID it does not parse natively, in certificate order.
Bag(e, k) == SelectSeq(e, LAMBDA x : x \notin k)

\* SecCertificateCopyFirstFieldValue(cert, &oid, &value), line 100, on a
\* host that does not fail for reasons of its own: noErr with a borrowed
\* value when the field is present among the parsed ones, UNKNOWN_TAG when
\* the library does not recognize the OID (line 104-105), and for a
\* recognized OID the certificate does not carry the "no field values"
\* status by which the library reports an absent field (as it does at line
\* 113-114 for an empty bag).
CopyFirstFieldValue(e, k, o) ==
    IF o \notin k THEN "UNKNOWN_TAG"
    ELSE IF o \in Range(e) THEN "noErr"
    ELSE "NO_FIELD_VALUES"

\* SecCertificateCopyFieldValues(cert, &CSSMOID_X509V3CertificateExtension-
\* CStruct, &values), line 113: the statuses a host that does not fail for
\* reasons of its own can report. A certificate without unrecognized
\* extensions yields the "no field values" status (line 114) or success
\* with nothing to iterate (the case line 115 guards).
CopyFieldValues(e, k) ==
    IF Bag(e, k) = << >> THEN {"NO_FIELD_VALUES", "noErr"} ELSE {"noErr"}

\* Lines 100-108: where the switch on the fast-path status leads.
FastPathNext_SwallowErrors(s) ==
    IF s = "noErr" THEN "release_first" ELSE "slow"
FastPathNext(s) ==
    IF s = "noErr" THEN "release_first"
    ELSE IF s = "UNKNOWN_TAG" THEN "slow"
    ELSE "throw"

\* Lines 115-122: the index of the first entry of vals, from i on, whose
\* extnId equals o; Len(vals) + 1 when the terminating null is reached.
RECURSIVE ScanFrom(_, _, _)
ScanFrom(vals, o, i) ==
    IF i > Len(vals) THEN i
    ELSE IF o = vals[i] THEN i
    ELSE ScanFrom(vals, o, i + 1)

\* Lines 119-123: a match leaves only the for loop; both outcomes reach the
\* release call of line 123.
ScanExit_ReturnOnMatch(f) == IF f THEN "done" ELSE "release_all"
ScanExit(f) == "release_all"

\* Line 100: the fast-path query and the switch on its status.
FastPath ==
    /\ cpc = "call"
    /\ \E s \in {CopyFirstFieldValue(exts, known, oid), "INTERNAL_ERROR"} :
         /\ rc' = s
         /\ hostFault' = (s = "INTERNAL_ERROR")
         /\ copiedFirst' = IF s = "noErr" THEN 1 ELSE 0
         /\ IF FastPathNext(s) = "throw"
            THEN /\ cpc' = "done"            \* line 107
                 /\ cresult' = "raised"
                 /\ thrown' = s
            ELSE /\ cpc' = FastPathNext(s)
                 /\ UNCHANGED <<cresult, thrown>>
    /\ UNCHANGED <<exts, known, oid, values, scan, found, relrc, relFirst,
                   relAll, copiedAll, slowTried>>
    /\ UNCHANGED <<hashVars, copyVars>>

\* Lines 102-103: release the borrowed value, then return true.
ReleaseFirst ==
    /\ cpc = "release_first"
    /\ \E r \in {"noErr", "INTERNAL_ERROR"} :
         /\ relrc' = r
         /\ hostFault' = (hostFault \/ r # "noErr")
         /\ relFirst' = relFirst + 1
         /\ cpc' = "done"
         /\ IF r # "noErr"
            THEN cresult' = "raised" /\ thrown' = r
            ELSE cresult' = "true" /\ UNCHANGED thrown
    /\ UNCHANGED <<exts, known, oid, rc, values, scan, found, relAll,
                   copiedFirst, copiedAll, slowTried>>
    /\ UNCHANGED <<hashVars, copyVars>>

\* Lines 111-114: the slow-path query.
SlowQuery ==
    /\ cpc = "slow"
    /\ slowTried' = TRUE
    /\ found' = FALSE
    /\ \E s \in CopyFieldValues(exts, known) \cup {"INTERNAL_ERROR"} :
         /\ hostFault' = (hostFault \/ s = "INTERNAL_ERROR")
         /\ IF s # "noErr"
            THEN /\ cpc' = "done"            \* line 114
                 /\ cresult' = "false"
                 /\ UNCHANGED <<values, copiedAll>>
            ELSE /\ cpc' = "scan"
                 /\ values' = Bag(exts, known)
                 /\ copiedAll' = copiedAll + 1
                 /\ UNCHANGED cresult
    /\ UNCHANGED <<exts, known, oid, rc, scan, relrc, thrown, relFirst, relAll,
                   copiedFirst>>
    /\ UNCHANGED <<hashVars, copyVars>>

\* Lines 115-122: the scan of the returned array. The position after the
\* loop is ScanExit; leaving the function from inside the loop would answer
\* true at once.
Scan ==
    /\ cpc = "scan"
    /\ LET i == ScanFrom(values, oid, 1)
           f == i <= Len(values)
       IN  /\ scan' = i
           /\ found' = f
           /\ cpc' = ScanExit(f)
           /\ cresult' = IF ScanExit(f) = "done" THEN "true" ELSE cresult
    /\ UNCHANGED <<exts, known, oid, rc, values, thrown, relrc, relFirst,
                   relAll, copiedFirst, copiedAll, slowTried, hostFault>>
    /\ UNCHANGED <<hashVars, copyVars>>

\* Lines 123-124: release the array, then return found.
ReleaseAll ==
    /\ cpc = "release_all"
    /\ \E r \in {"noErr", "INTERNAL_ERROR"} :
         /\ relrc' = r
         /\ hostFault' = (hostFault \/ r # "noErr")
         /\ relAll' = relAll + 1
         /\ cpc' = "done"
         /\ IF r # "noErr"
            THEN cresult' = "raised" /\ thrown' = r
            ELSE /\ cresult' = IF found THEN "true" ELSE "false"
                 /\ UNCHANGED thrown
    /\ UNCHANGED <<exts, known, oid, rc, values, scan, found, relFirst,
                   copiedFirst, copiedAll, slowTried>>
    /\ UNCHANGED <<hashVars, copyVars>>

CertLocals ==
    /\ cpc = "call" /\ rc = "none" /\ values = << >> /\ scan = 0
    /\ found = FALSE /\ cresult = "none" /\ thrown = "none" /\ relrc = "none"
    /\ relFirst = 0 /\ relAll = 0 /\ copiedFirst = 0 /\ copiedAll = 0
    /\ slowTried = FALSE /\ hostFault = FALSE

CertInit ==
    /\ exts \in SeqsUpTo(Oids, MaxExts)
    /\ known \in SUBSET Oids
    /\ oid \in Oids
    /\ CertLocals

CertIdle ==
    /\ exts = << >> /\ known = {} /\ oid = <<1>>
    /\ CertLocals

CertNext == FastPath \/ ReleaseFirst \/ SlowQuery \/ Scan \/ ReleaseAll

(***************************************************************************)
(* Copyfile (lines 131-156)                                                *)
(***************************************************************************)
\* Flags of the host copy facility: those copyfile_state_set records, the
\* library-maintained one that can only be retrieved, and one it rejects.
SettableFlags == {"SRC_FD", "STATUS_CTX"}
ReadOnlyFlags == {"COPIED"}
Flags == SettableFlags \cup ReadOnlyFlags \cup {"BOGUS"}
Values == 0..MaxValue

NoOp == [op |-> "none", flag |-> "none", value |-> 0, rc |-> 0]

\* ::copyfile_state_set(mState, flag, value), lines 139 and 144: the return
\* code, and the copy state afterwards with v the value found at *value.
StateSetRc(flag) == IF flag \in SettableFlags THEN 0 ELSE -1
StateSetEffect(st, flag, v) ==
    IF flag \in SettableFlags THEN [st EXCEPT ![flag] = v] ELSE st

\* Copyfile::check, lines 152-156: TRUE when UnixError is thrown.
check_NonZero(r) == r # 0
check(r) == r < 0

\* Copyfile::Copyfile, lines 131-135: the object's fate for the pointer
\* copyfile_state_alloc returned.
Constructed_NoThrow(st) == "alive"
Constructed(st) == IF st = "null" THEN "failed" ELSE "alive"

Construct ==
    /\ life = "none"
    /\ \E st \in {"state", "null"} :
         /\ mState' = st
         /\ allocs' = IF st = "state" THEN allocs + 1 ELSE allocs
         /\ life' = Constructed(st)
         /\ raisedIo' = (Constructed(st) = "failed")
    /\ UNCHANGED <<cstate, outbuf, lastOp, prevOp, frees>>
    /\ UNCHANGED <<hashVars, certVars>>

\* Copyfile::set, lines 137-140.
Set ==
    /\ life = "alive"
    /\ \E flag \in Flags, v \in Values :
         LET r == StateSetRc(flag)
         IN  /\ cstate' = StateSetEffect(cstate, flag, v)
             /\ lastOp' = [op |-> "set", flag |-> flag, value |-> v, rc |-> r]
             /\ raisedIo' = check(r)
    /\ prevOp' = lastOp
    /\ UNCHANGED <<mState, life, outbuf, allocs, frees>>
    /\ UNCHANGED <<hashVars, certVars>>

\* Copyfile::get, lines 142-145: value points at the caller's buffer, which
\* holds x before the call; the call made is ::copyfile_state_set.
Get ==
    /\ life = "alive"
    /\ \E flag \in Flags, x \in Values :
         LET r == StateSetRc(flag)
         IN  /\ cstate' = StateSetEffect(cstate, flag, x)
             /\ outbuf' = x
             /\ lastOp' = [op |-> "get", flag |-> flag, value |-> x, rc |-> r]
             /\ raisedIo' = check(r)
    /\ prevOp' = lastOp
    /\ UNCHANGED <<mState, life, allocs, frees>>
    /\ UNCHANGED <<hashVars, certVars>>

\* Copyfile::operator (), lines 147-150: ::copyfile reports failure (-1),
\* success (0) or, for a COPYFILE_CHECK query, a positive bit mask; a copy
\* that succeeds leaves the bytes-copied value in the state.
Copy ==
    /\ life = "alive"
    /\ \E r \in {-1, 0, 1} :
         /\ lastOp' = [op |-> "copy", flag |-> "none", value |-> 0, rc |-> r]
         /\ raisedIo' = check(r)
         /\ cstate' = IF r = 0 THEN [cstate EXCEPT !["COPIED"] = 1] ELSE cstate
    /\ prevOp' = lastOp
    /\ UNCHANGED <<mState, life, outbuf, allocs, frees>>
    /\ UNCHANGED <<hashVars, certVars>>

\* Copyfile::~Copyfile (declared in csutilities.h): releases the copy state,
\* unconditionally. It runs for a constructed object only, also when the
\* scope is left by an exception.
Destroy ==
    /\ life = "alive"
    /\ life' = "destroyed"
    /\ frees' = IF mState = "state" THEN frees + 1 ELSE frees
    /\ UNCHANGED <<mState, cstate, outbuf, lastOp, prevOp, raisedIo, allocs>>
    /\ UNCHANGED <<hashVars, certVars>>

CopyInit ==
    /\ mState = "null" /\ life = "none"
    /\ cstate = [f \in SettableFlags \cup ReadOnlyFlags |-> 0]
    /\ outbuf = 0 /\ lastOp = NoOp /\ prevOp = NoOp
    /\ raisedIo = FALSE /\ allocs = 0 /\ frees = 0

CopyNext == Construct \/ Set \/ Get \/ Copy \/ Destroy

(***************************************************************************)
(* Specifications                                                          *)
(***************************************************************************)
HashSpecInit == HashInit /\ CertIdle /\ CopyInit
HashSpec == HashSpecInit /\ [][HashNext]_vars
\* The loop of hashFileData runs on the caller's thread until it leaves.
HashFairSpec == HashSpec /\ WF_vars(Iterate) /\ WF_vars(Return)

CertSpecInit == HashIdle /\ CertInit /\ CopyInit
CertSpec == CertSpecInit /\ [][CertNext]_vars

CopySpecInit == HashIdle /\ CertIdle /\ CopyInit
CopySpec == CopySpecInit /\ [][CopyNext]_vars

(***************************************************************************)
(* Properties                                                              *)
(***************************************************************************)
IsPrefix(a, b) == Len(a) <= Len(b) /\ SubSeq(b, 1, Len(a)) = a

\* C4: a call of hashFileData that returns, entered with the cursor at p in
\* a file of n bytes, returns min(n - p, L) for a limit L > 0 and n - p for
\* L = 0, and leaves the cursor advanced by exactly the value returned.
C4_ReturnsBytesRead ==
    hpc = "returned" =>
        /\ ret = IF startLimit > 0
                 THEN Min(Len(file) - startPos, startLimit)
                 ELSE Len(file) - startPos
        /\ pos = startPos + ret

\* C4 witness: a limit that takes more than one read and ends the call
\* before the end of the file.
C4_Witness ==
    /\ hpc = "returned"
    /\ startLimit > BufferSize
    /\ startLimit < Len(file) - startPos
    /\ ret = startLimit

C10_IterationStep ==
    (hpc = "loop" /\ hpc' # "raised") =>
        /\ size' = IF limit > 0 THEN Min(BufferSize, limit) ELSE BufferSize
        /\ limit' = IF limit > 0 THEN limit - got' ELSE 0
        /\ limit' >= 0
        /\ (hpc' = "return") <=> (atEnd' \/ (limit > 0 /\ limit' = 0))
C10_LoopTerminates ==
    /\ [][C10_IterationStep]_vars
    /\ (hpc = "loop") ~> (hpc \in {"returned", "raised"})

\* C10 witness: a short read under a limit, after which the loop goes on.
C10_Witness ==
    /\ hpc = "loop"
    /\ startLimit > 0 /\ limit > 0
    /\ got > 0 /\ got < size

\* C1: a call of certificateHasField on a host that does not fail for
\* reasons of its own returns true when the certificate carries an
\* extension with the OID and false when it does not, whether or not the
\* host library recognizes the OID.
C1_ProbeMatchesPresence ==
    (cpc = "done" /\ ~hostFault) =>
        cresult = IF oid \in Range(exts) THEN "true" ELSE "false"

\* C2: no release is issued without a successful copy, and when the call
\* exits every successful copy has been followed by exactly one release.
C2_ReleasedExactlyOnce ==
    /\ relFirst <= copiedFirst
    /\ relAll <= copiedAll
    /\ cpc = "done" => (relFirst = copiedFirst /\ relAll = copiedAll)

\* C2 witness: the slow path found a match and the array was released.
C2_Witness ==
    /\ cpc = "done" /\ cresult = "true"
    /\ found /\ copiedAll = 1 /\ relAll = 1

\* C3 as stated: the call fails exactly when the fast-path status is
\* neither success nor "unknown tag".
C3_FailsOnlyOnFastPathStatus ==
    cpc = "done" =>
        (cresult = "raised" <=> rc \notin {"noErr", "UNKNOWN_TAG"})

\* C3 as amended: the call fails exactly when the fast-path status is
\* neither success nor "unknown tag" or a release call reports a status
\* other than success; the failure carries that status; after a fast-path
\* failure the slow path is not attempted; a failed slow-path query gives
\* false; and between a successful slow-path query and its release nothing
\* fails.
C3_FailsOnStatusOrRelease ==
    cpc = "done" =>
        /\ cresult = "raised" <=>
               (rc \notin {"noErr", "UNKNOWN_TAG"} \/ relrc \notin {"none", "noErr"})
        /\ rc \notin {"noErr", "UNKNOWN_TAG"} =>
               (thrown = rc /\ ~slowTried /\ relrc = "none")
        /\ relrc \notin {"none", "noErr"} => thrown = relrc
        /\ (slowTried /\ copiedAll = 0) => cresult = "false"
        /\ copiedAll = 1 => relAll = 1

\* C3 witness: the slow-path query succeeded and the release that followed
\* reported a failure, which the call raised.
C3_Witness ==
    /\ cpc = "done" /\ cresult = "raised"
    /\ copiedAll = 1 /\ relrc = "INTERNAL_ERROR" /\ thrown = "INTERNAL_ERROR"

\* C7: get(k, &out) right after a successful set(k, v), for a flag the
\* facility can both record and retrieve, stores v in out and leaves v
\* recorded under k.
C7_GetReturnsWhatSetRecorded ==
    ( /\ lastOp.op = "get" /\ prevOp.op = "set"
      /\ lastOp.flag = prevOp.flag
      /\ prevOp.flag \in SettableFlags ) =>
        (outbuf = prevOp.value /\ cstate[prevOp.flag] = prevOp.value)

\* C8: at most one release per allocation at any time; a constructed object
\* holds the one state allocated for it, not yet released; a destroyed one
\* has had it released exactly once; a construction whose allocation failed
\* raised and holds nothing.
C8_OneReleasePerAllocation ==
    /\ frees <= allocs
    /\ life = "alive" => (mState = "state" /\ allocs = 1 /\ frees = 0)
    /\ life = "destroyed" => (allocs = 1 /\ frees = 1)
    /\ life = "failed" => (mState = "null" /\ allocs = 0 /\ frees = 0 /\ raisedIo)

\* C8 witness: the object was destroyed after its latest operation failed.
C8_Witness ==
    /\ life = "destroyed" /\ frees = 1
    /\ lastOp.op = "copy" /\ raisedIo

\* C9: an operation raises exactly when the facility's return code is
\* negative.
C9_RaisesIffNegative ==
    lastOp.op # "none" => (raisedIo <=> lastOp.rc < 0)

\* C9 witness: a positive return code completed without error.
C9_Witness ==
    /\ lastOp.op = "copy" /\ lastOp.rc > 0 /\ ~raisedIo

====
